---- MODULE Spec2Model ----
(***************************************************************************)
(* Model of the hebrew-subtitles Chrome extension.                         *)
(*                                                                         *)
(*   controller  background service worker   src/unnamed/part_000          *)
(*   capturer    offscreen document          src/extension/offscreen.js    *)
(*   renderer    content script of a tab     src/extension/contentScript.js*)
(*                                                                         *)
(* Every JavaScript task (a message handler, a socket event, a timer       *)
(* callback, the continuation of an await) is one action.  A promise       *)
(* continuation runs as a microtask of the task that settles the promise,  *)
(* so it belongs to the action of that task.                               *)
(***************************************************************************)
EXTENDS Integers, Sequences, FiniteSets, TLC

\* ------------------------------------------------------------- bounds
MaxStarts == 2
MaxSockets == 3
MaxChain == 5
MaxChunks == 2
MaxQueue == 2
LifeSockets == 2
MaxBlocks == 3
NumTabs == 2
MaxInbound == 2

\* ------------------------------------------------- program constants
BackoffBaseMs == 2000
BackoffCapMs == 12000
DefaultChunkSec == 5
MinCaptionMs == 2500
MsPerChar == 55

StartIds == 1..MaxStarts
SockIds == 1..MaxChain
Tabs == 1..NumTabs

VARIABLES
    \* controller globals, part_000 lines 1-5
    socket, currentTabId, config, wsReconnectTimer, isRunning,
    \* every WebSocket object created by openWebSocket, and its closure
    sock, nsock,
    \* every call of the async function startCapture
    proc, nstart,
    \* chrome.storage.local "running"; whether offscreen.html exists
    storageRunning, offscreenDoc,
    \* frames written to sockets, chunks handleAudioChunk returned on
    wire, dropped, nchunk,
    \* messages controller -> offscreen document, in order
    toOff,
    \* capturer globals and objects, offscreen.js lines 1-6
    oproc, stream, recorder, captureStream, mediaRecorder, webmHeader,
    \* the closure of each call of the capturer's startCapture (its config,
    \* chunkMs / 1000, chunkIndex, chunkStartSec), the block reads awaited,
    \* the AUDIO_CHUNK messages sent, the dataavailable events so far
    ocfg, chunkSec, chunkIndex, chunkStartSec, reads, emitted, nblock,
    \* history: a stop ran with a reconnect timer pending, no start since
    stopMark,
    \* the messages the latest task sent to the extension's pages (to 0) and
    \* to tabs: STATUS_UPDATE, SUBTITLE_PREVIEW, SUBTITLE, CLEAR_SUBTITLES
    outbox,
    \* chrome.storage.local "lastSubtitle"; the latest event.data a socket's
    \* onmessage got, and how many there were
    lastSubtitle, lastRec, nmsg,
    \* the content script of each tab: inner.textContent, hls-visible,
    \* hideTimer, the timers setTimeout created
    overlay,
    \* environment: the remote endpoint accepts connections
    serverUp

ctlVars == <<socket, currentTabId, config, wsReconnectTimer, isRunning,
             sock, nsock, proc, nstart, storageRunning,
             offscreenDoc, stopMark>>
chunkVars == <<wire, dropped, nchunk>>
segVars == <<ocfg, chunkSec, chunkIndex, chunkStartSec, reads, emitted, nblock>>
offVars == <<oproc, stream, recorder, captureStream, mediaRecorder, webmHeader, segVars>>
uiVars == <<outbox, lastSubtitle, lastRec, nmsg, overlay, serverUp>>
vars == <<ctlVars, chunkVars, toOff, offVars, uiVars>>

\* ----------------------------------------------------------- helpers
Min(a, b) == IF a < b THEN a ELSE b

RECURSIVE Pow2(_)
Pow2(n) == IF n = 0 THEN 1 ELSE 2 * Pow2(n - 1)

NoSock == [state |-> "NONE", attempt |-> 0, tpend |-> FALSE, promise |-> "none",
           owner |-> 0, from |-> 0, timer |-> "none", delay |-> 0,
           byStop |-> FALSE]
NoProc == [pc |-> "none", err |-> "", ws |-> 0, tab |-> 0, streamId |-> FALSE,
           stoppedAt |-> "none", bound |-> 0]

\* the awaits of startCapture before and after it sends START_CAPTURE
BeforeSend == {"tabsQuery", "inject", "wsOpen", "streamId", "getContexts",
               "createDocument", "sleep"}
InFlight == BeforeSend \cup {"ack"}

\* the reconnect delay computed in ws.onclose
BackoffDelayNoCap(attempt) == BackoffBaseMs * Pow2(attempt)
BackoffDelay(attempt) == Min(BackoffBaseMs * Pow2(attempt), BackoffCapMs)

\* the attempt number the timer callback passes to openWebSocket
NextAttempt(attempt) == attempt + 1

\* the timer callback's guard: if (!isRunning) return;
TimerMayReconnectAlways == TRUE
TimerMayReconnect == isRunning

\* handleAudioChunk's guard: if (!socket || socket.readyState !== OPEN) return;
CanSendAnyState == socket # 0
CanSend == socket # 0 /\ sock[socket].state = "OPEN"

\* clearTimeout(id) on the reconnect timers
ClearTimeout(sk, id) ==
    [s \in SockIds |->
        IF s = id /\ sk[s].timer = "pending"
        THEN [sk[s] EXCEPT !.timer = "cleared"] ELSE sk[s]]

\* ws.close(): a socket that is connecting or open starts closing
CloseSocket(sk, id) ==
    [s \in SockIds |->
        IF s = id /\ sk[s].state \in {"CONNECTING", "OPEN"}
        THEN [sk[s] EXCEPT !.state = "CLOSING"] ELSE sk[s]]

\* new WebSocket(url) with its connect timer, as openWebSocket creates it
NewSocket(attempt, owner, from) ==
    [state |-> "CONNECTING", attempt |-> attempt, tpend |-> TRUE,
     promise |-> "pending", owner |-> owner, from |-> from,
     timer |-> "none", delay |-> 0, byStop |-> FALSE]

\* history: stopCapture called close() on this socket before it had closed
MarkStopped(sk, id) ==
    [s \in SockIds |->
        IF s = id /\ sk[s].state \in {"CONNECTING", "OPEN"}
        THEN [sk[s] EXCEPT !.byStop = TRUE] ELSE sk[s]]

\* ws.onclose: if (!isRunning) return
CloseNeverSchedules == FALSE
CloseMaySchedule == isRunning

\* startCapture after START_CAPTURE: !result || !result.success throws
AckSuccessAlways(result) == TRUE
AckSuccess(result) == result = "respOk"

\* startCapture throws: the listener's catch answers {ok: false, error}
Throw(pr, p, err) == [pr EXCEPT ![p].pc = "failed", ![p].err = err]

\* history: the await each call of startCapture was suspended at when a
\* stop first ran (before or after its START_CAPTURE was sent)
StopProc ==
    [p \in StartIds |->
        IF proc[p].pc \in InFlight /\ proc[p].stoppedAt = "none"
        THEN [proc[p] EXCEPT !.stoppedAt =
                 IF proc[p].pc = "ack" THEN "ack" ELSE "beforeSend"]
        ELSE proc[p]]

\* a message of sendMessage: to the extension's pages (to = 0) or to a tab
Msg(type, to, text, state, arg, sub) ==
    [type |-> type, to |-> to, text |-> text, state |-> state, arg |-> arg, sub |-> sub]

\* notifyStatus(text, state); arg is the number the text is built with
notifyStatus(text, state, arg) == Msg("STATUS_UPDATE", 0, text, state, arg, <<>>)

\* a content script as injected: nothing shown, hideTimer = null
NoOverlay == [text |-> <<>>, visible |-> FALSE, hideTimer |-> 0, timers |-> {}, n |-> 0,
              fontSize |-> 0, pos |-> ""]

\* clearSubtitles() of the content script
clearSubtitlesNoCancel(o) == [o EXCEPT !.visible = FALSE, !.text = <<>>]
clearSubtitles(o) ==
    [o EXCEPT !.timers = {tm \in @ : tm.id # o.hideTimer},
              !.visible = FALSE, !.text = <<>>]

\* a task that sends nothing to pages or tabs
Silent ==
    /\ outbox' = <<>>
    /\ UNCHANGED <<lastSubtitle, lastRec, nmsg, overlay, serverUp>>

\* stopCapture(reason), all but the assignment to isRunning, which the
\* caller states: false for a stop, true again for startCapture's restart
stopCapture ==
    /\ Len(toOff) < MaxQueue
    /\ sock' = CloseSocket(MarkStopped(ClearTimeout(sock, wsReconnectTimer), socket),
                           socket)
    /\ toOff' = Append(toOff, [type |-> "STOP_CAPTURE", p |-> 0, chunkSize |-> 0])
    /\ socket' = 0
    /\ storageRunning' = FALSE
    /\ IF currentTabId # 0
       THEN /\ outbox' = <<Msg("CLEAR_SUBTITLES", currentTabId, "", "", 0, <<>>)>>
            /\ overlay' = [overlay EXCEPT ![currentTabId] = clearSubtitles(@)]
       ELSE /\ outbox' = <<>>
            /\ UNCHANGED overlay
    /\ UNCHANGED <<wsReconnectTimer, currentTabId, lastSubtitle, lastRec, nmsg, serverUp>>

\* ------------------------------------------------------------- Init
Init ==
    /\ socket = 0 /\ currentTabId = 0 /\ config = 0
    /\ wsReconnectTimer = 0 /\ isRunning = FALSE
    /\ sock = [s \in SockIds |-> NoSock] /\ nsock = 0
    /\ proc = [p \in StartIds |-> NoProc] /\ nstart = 0
    /\ storageRunning = FALSE /\ offscreenDoc = FALSE
    /\ wire = <<>> /\ dropped = {} /\ nchunk = 0
    /\ toOff = <<>>
    /\ oproc = [p \in StartIds |-> "none"]
    /\ stream = [p \in StartIds |-> "none"]
    /\ recorder = [p \in StartIds |-> "none"]
    /\ captureStream = 0 /\ mediaRecorder = 0 /\ webmHeader = <<>>
    /\ ocfg = [p \in StartIds |-> 0]
    /\ chunkSec = [p \in StartIds |-> 0]
    /\ chunkIndex = [p \in StartIds |-> 0]
    /\ chunkStartSec = [p \in StartIds |-> 0]
    /\ reads = {} /\ emitted = <<>> /\ nblock = 0
    /\ outbox = <<>> /\ lastSubtitle = <<>> /\ nmsg = 0
    /\ lastRec = [valid |-> FALSE, event |-> "", hasText |-> FALSE, text |-> <<>>]
    /\ overlay = [t \in Tabs |-> NoOverlay]
    /\ serverUp = FALSE
    /\ stopMark = FALSE

\* ------------------------------------------------ controller actions

\* START_CAPTURE from the popup: startCapture up to its first await
StartRequest(cap) ==
    /\ nstart < cap
    /\ nstart' = nstart + 1
    /\ IF isRunning
       THEN /\ stopCapture
            /\ proc' = [StopProc EXCEPT ![nstart + 1] =
                            [NoProc EXCEPT !.pc = "tabsQuery"]]
       ELSE /\ proc' = [proc EXCEPT ![nstart + 1] =
                            [NoProc EXCEPT !.pc = "tabsQuery"]]
            /\ UNCHANGED <<sock, toOff, socket, storageRunning,
                           wsReconnectTimer, currentTabId>>
            /\ Silent
    /\ config' = nstart + 1
    /\ isRunning' = TRUE
    /\ stopMark' = FALSE
    /\ UNCHANGED <<nsock, offscreenDoc, chunkVars, offVars>>

\* stopCapture called by a listener
Stop ==
    /\ stopCapture
    /\ isRunning' = FALSE
    /\ proc' = StopProc
    /\ stopMark' = (stopMark \/ \E s \in SockIds : sock[s].timer = "pending")
    /\ UNCHANGED <<config, nsock, nstart, offscreenDoc, chunkVars, offVars>>

\* STOP_CAPTURE from the popup: stopCapture('manual')
StopRequest == Stop

\* chrome.tabs.onRemoved: stopCapture('tab closed') for the bound tab
TabRemoved(t) ==
    IF t = currentTabId THEN Stop ELSE UNCHANGED vars

\* chrome.tabs.onUpdated, info.status = 'loading': stopCapture('tab navigated')
TabLoading(t) ==
    IF t = currentTabId THEN Stop ELSE UNCHANGED vars

\* chrome.tabs.query resolves: no tab, or the active tab
TabsQueryDone(p, t) ==
    /\ proc[p].pc = "tabsQuery"
    /\ IF t = 0
       THEN /\ proc' = Throw(proc, p, "No active tab found")
            /\ UNCHANGED currentTabId
       ELSE /\ proc' = [proc EXCEPT ![p].pc = "inject", ![p].bound = t]
            /\ currentTabId' = t
    /\ UNCHANGED <<socket, config, wsReconnectTimer, isRunning, sock, nsock, nstart,
                   storageRunning, offscreenDoc, stopMark, chunkVars, toOff, offVars>>
    /\ Silent

\* executeScript settles (a failure is swallowed): openWebSocket(cfg.wsUrl)
InjectDone(p, cap) ==
    /\ proc[p].pc = "inject"
    /\ nsock < cap
    /\ nsock' = nsock + 1
    /\ sock' = [sock EXCEPT ![nsock + 1] = NewSocket(0, p, 0)]
    /\ socket' = nsock + 1
    /\ proc' = [proc EXCEPT ![p].pc = "wsOpen", ![p].ws = nsock + 1]
    /\ UNCHANGED <<currentTabId, config, wsReconnectTimer, isRunning, nstart,
                   storageRunning, offscreenDoc, stopMark, chunkVars, toOff, offVars>>
    /\ Silent

\* ws.onopen: clearTimeout(t), notifyStatus('connected'), resolve(ws); the
\* awaiting startCapture goes on to getMediaStreamId
WsOpen(s) ==
    /\ sock[s].state = "CONNECTING"
    /\ sock' = [sock EXCEPT ![s].state = "OPEN", ![s].tpend = FALSE,
                            ![s].promise = "resolved"]
    /\ proc' = IF sock[s].owner # 0
               THEN [proc EXCEPT ![sock[s].owner].pc = "streamId",
                                 ![sock[s].owner].tab = currentTabId]
               ELSE proc
    /\ outbox' = <<notifyStatus("connected", "active", 0)>> \o
                  (IF sock[s].from # 0
                   THEN <<notifyStatus("reconnected", "active", 0)>> ELSE <<>>)
    /\ UNCHANGED <<socket, currentTabId, config, wsReconnectTimer, isRunning, nsock,
                   nstart, storageRunning, offscreenDoc, stopMark,
                   chunkVars, toOff, offVars, lastSubtitle, lastRec, nmsg, overlay, serverUp>>

\* the socket's close event (after its error event when the connection
\* failed): ws.onerror rejects a pending promise, ws.onclose schedules
WsClose(s) ==
    /\ sock[s].state \in {"CONNECTING", "OPEN", "CLOSING"}
    /\ sock[s].state = "CONNECTING" => ~serverUp
    /\ LET rejected == sock[s].promise = "pending"
       IN /\ sock' = [sock EXCEPT
                 ![s].state = "CLOSED", ![s].tpend = FALSE,
                 ![s].promise = IF rejected THEN "failed" ELSE @,
                 ![s].timer = IF CloseMaySchedule THEN "pending" ELSE @,
                 ![s].delay = IF CloseMaySchedule
                              THEN BackoffDelay(sock[s].attempt) ELSE @]
          /\ proc' = IF rejected /\ sock[s].owner # 0
                     THEN Throw(proc, sock[s].owner, "failed") ELSE proc
          /\ wsReconnectTimer' = IF CloseMaySchedule THEN s ELSE wsReconnectTimer
          /\ outbox' = IF CloseMaySchedule
                       THEN <<notifyStatus("reconnecting in", "error",
                                           BackoffDelay(sock[s].attempt) \div 1000)>>
                       ELSE <<>>
    /\ UNCHANGED <<socket, currentTabId, config, isRunning, nsock, nstart,
                   storageRunning, offscreenDoc, stopMark, chunkVars, toOff, offVars,
                   lastSubtitle, lastRec, nmsg, overlay, serverUp>>

\* the 7 s connect timer t: ws.close(); reject(new Error('timeout'))
ConnectTimeout(s) ==
    /\ sock[s].tpend
    /\ ~serverUp
    /\ sock' = [CloseSocket(sock, s) EXCEPT ![s].tpend = FALSE,
                                          ![s].promise = "timeout"]
    /\ proc' = IF sock[s].owner # 0
               THEN Throw(proc, sock[s].owner, "timeout") ELSE proc
    /\ UNCHANGED <<socket, currentTabId, config, wsReconnectTimer, isRunning, nsock,
                   nstart, storageRunning, offscreenDoc, stopMark,
                   chunkVars, toOff, offVars>>
    /\ Silent

\* the reconnect timer's callback
TimerFire(s, cap) ==
    /\ sock[s].timer = "pending"
    /\ IF TimerMayReconnect
       THEN /\ nsock < cap
            /\ nsock' = nsock + 1
            /\ sock' = [sock EXCEPT ![s].timer = "fired",
                          ![nsock + 1] = NewSocket(NextAttempt(sock[s].attempt), 0, s)]
            /\ socket' = nsock + 1
       ELSE /\ sock' = [sock EXCEPT ![s].timer = "fired"]
            /\ UNCHANGED <<nsock, socket>>
    /\ UNCHANGED <<currentTabId, config, wsReconnectTimer, isRunning, proc, nstart,
                   storageRunning, offscreenDoc, stopMark, chunkVars, toOff, offVars>>
    /\ Silent

\* the browser hands out no second stream id for a tab whose capture
\* another call holds
TabBusy(p) ==
    \E q \in StartIds \ {p} :
        proc[q].tab = proc[p].tab /\ proc[q].streamId /\ stream[q] # "stopped"

\* getMediaStreamId's callback: an id, or lastError
StreamIdDone(p, ok) ==
    /\ proc[p].pc = "streamId"
    /\ ok => ~TabBusy(p)
    /\ proc' = IF ok THEN [proc EXCEPT ![p].pc = "getContexts", ![p].streamId = TRUE]
               ELSE Throw(proc, p, "failed")
    /\ UNCHANGED <<socket, currentTabId, config, wsReconnectTimer, isRunning, sock,
                   nsock, nstart, storageRunning, offscreenDoc,
                   stopMark, chunkVars, toOff, offVars>>
    /\ Silent

\* setupOffscreenDocument: getContexts resolves; return, or createDocument
GetContextsDone(p) ==
    /\ proc[p].pc = "getContexts"
    /\ proc' = [proc EXCEPT ![p].pc = IF offscreenDoc THEN "sleep" ELSE "createDocument"]
    /\ UNCHANGED <<socket, currentTabId, config, wsReconnectTimer, isRunning, sock,
                   nsock, nstart, storageRunning, offscreenDoc,
                   stopMark, chunkVars, toOff, offVars>>
    /\ Silent

\* createDocument settles: the browser refuses a second offscreen document
CreateDocumentDone(p) ==
    /\ proc[p].pc = "createDocument"
    /\ IF offscreenDoc
       THEN /\ proc' = Throw(proc, p, "single offscreen document")
            /\ UNCHANGED offscreenDoc
       ELSE /\ proc' = [proc EXCEPT ![p].pc = "sleep"]
            /\ offscreenDoc' = TRUE
    /\ UNCHANGED <<socket, currentTabId, config, wsReconnectTimer, isRunning, sock,
                   nsock, nstart, storageRunning,
                   stopMark, chunkVars, toOff, offVars>>
    /\ Silent

\* the 200 ms pause ends: START_CAPTURE goes to the offscreen document
SleepDone(p) ==
    /\ proc[p].pc = "sleep"
    /\ Len(toOff) < MaxQueue
    /\ toOff' = Append(toOff, [type |-> "START_CAPTURE", p |-> p,
                                 chunkSize |-> DefaultChunkSec])
    /\ proc' = [proc EXCEPT ![p].pc = "ack"]
    /\ UNCHANGED <<socket, currentTabId, config, wsReconnectTimer, isRunning, sock,
                   nsock, nstart, storageRunning, offscreenDoc,
                   stopMark, chunkVars, offVars>>
    /\ Silent

\* the offscreen document's answer to START_CAPTURE arrives
StartAck(p) ==
    /\ proc[p].pc = "ack"
    /\ oproc[p] \in {"respOk", "respFail"}
    /\ oproc' = [oproc EXCEPT ![p] = "answered"]
    /\ IF AckSuccess(oproc[p])
       THEN /\ proc' = [proc EXCEPT ![p].pc = "done"]
            /\ storageRunning' = TRUE
            /\ outbox' = <<notifyStatus("live", "active", 0)>>
       ELSE /\ proc' = Throw(proc, p, "Offscreen failed")
            /\ outbox' = <<>>
            /\ UNCHANGED storageRunning
    /\ UNCHANGED <<socket, currentTabId, config, wsReconnectTimer, isRunning, sock,
                   nsock, nstart, offscreenDoc, stopMark, chunkVars, toOff,
                   stream, recorder, captureStream, mediaRecorder, webmHeader,
                   segVars, lastSubtitle, lastRec, nmsg, overlay, serverUp>>

\* START_CAPTURE finds no listener that answers: result is undefined
StartUnanswered(p) ==
    /\ proc[p].pc = "ack"
    /\ toOff # <<>>
    /\ Head(toOff).type = "START_CAPTURE" /\ Head(toOff).p = p
    /\ toOff' = Tail(toOff)
    /\ proc' = Throw(proc, p, "Offscreen failed: no response")
    /\ UNCHANGED <<socket, currentTabId, config, wsReconnectTimer, isRunning, sock,
                   nsock, nstart, storageRunning, offscreenDoc, stopMark,
                   chunkVars, offVars>>
    /\ Silent

\* handleAudioChunk past its guard: socket.send(JSON.stringify({event:
\* 'chunk', ...})) and then socket.send(bytes.buffer)
ChunkFramesMetadataOnly(s, c, p) ==
    << [sock |-> s, kind |-> "text", chunk |-> c, sess |-> p] >>
ChunkFrames(s, c, p) ==
    << [sock |-> s, kind |-> "text", chunk |-> c, sess |-> p],
       [sock |-> s, kind |-> "binary", chunk |-> c, sess |-> p] >>

\* AUDIO_CHUNK from the recorder of session p: handleAudioChunk
OnAudioChunk(p) ==
    /\ recorder[p] # "none"
    /\ nchunk < MaxChunks
    /\ nchunk' = nchunk + 1
    /\ IF CanSend
       THEN /\ wire' = wire \o ChunkFrames(socket, nchunk + 1, p)
            /\ UNCHANGED dropped
       ELSE /\ dropped' = dropped \cup {nchunk + 1}
            /\ UNCHANGED wire
    /\ UNCHANGED <<ctlVars, toOff, offVars>>
    /\ Silent

\* CAPTURE_ERROR from the recorder of session p (mediaRecorder.onerror):
\* notifyStatus('capture error: ' + msg.error, 'error')
OnCaptureError(p) ==
    /\ recorder[p] = "recording"
    /\ outbox' = <<notifyStatus("capture error", "error", 0)>>
    /\ UNCHANGED <<ctlVars, chunkVars, toOff, offVars,
                   lastSubtitle, lastRec, nmsg, overlay, serverUp>>

\* environment: from now on the remote endpoint accepts connections
ServerAccepts ==
    /\ ~serverUp
    /\ serverUp' = TRUE
    /\ outbox' = <<>>
    /\ UNCHANGED <<ctlVars, chunkVars, toOff, offVars,
                   lastSubtitle, lastRec, nmsg, overlay>>

\* -------------------------------------------------- capturer actions

\* stopCapture() of offscreen.js on the objects the globals name; the
\* recorder's stop() leaves its last block to a dataavailable event
OffStopRecorder(rec) ==
    [p \in StartIds |->
        IF p = mediaRecorder /\ rec[p] = "recording" THEN "flushing" ELSE rec[p]]
OffStopStreamLatest(st) ==
    [p \in StartIds |->
        IF st[p] = "live" /\ \A q \in StartIds : st[q] = "live" => q <= p
        THEN "stopped" ELSE st[p]]
OffStopStream(st) ==
    [p \in StartIds |-> IF p = captureStream /\ st[p] = "live" THEN "stopped" ELSE st[p]]

\* the offscreen listener takes the next message
OffRecv ==
    /\ toOff # <<>>
    /\ toOff' = Tail(toOff)
    /\ IF Head(toOff).type = "STOP_CAPTURE"
       THEN /\ recorder' = OffStopRecorder(recorder)
            /\ stream' = OffStopStream(stream)
            /\ mediaRecorder' = 0
            /\ captureStream' = 0
            /\ webmHeader' = <<>>
            /\ UNCHANGED <<oproc, ocfg>>
       ELSE \* startCapture up to its await of getUserMedia
            /\ webmHeader' = <<>>
            /\ oproc' = [oproc EXCEPT ![Head(toOff).p] = "getUserMedia"]
            /\ ocfg' = [ocfg EXCEPT ![Head(toOff).p] = Head(toOff).chunkSize]
            /\ UNCHANGED <<stream, recorder, captureStream, mediaRecorder>>
    /\ UNCHANGED <<ctlVars, chunkVars, chunkSec, chunkIndex, chunkStartSec,
                   reads, emitted, nblock>>
    /\ Silent

\* (config.chunkSize || 5) * 1000, in seconds
ChunkSeconds(chunkSize) == IF chunkSize = 0 THEN DefaultChunkSec ELSE chunkSize

\* getUserMedia settles; the recorder is created and started, or throws
GetUserMediaDone(p, outcome) ==
    /\ oproc[p] = "getUserMedia"
    /\ oproc' = [oproc EXCEPT ![p] = IF outcome = "recording" THEN "respOk" ELSE "respFail"]
    /\ IF outcome = "rejected"
       THEN UNCHANGED <<stream, captureStream, recorder, mediaRecorder, chunkSec>>
       ELSE /\ stream' = [stream EXCEPT ![p] = "live"]
            /\ captureStream' = p
            /\ chunkSec' = [chunkSec EXCEPT ![p] = ChunkSeconds(ocfg[p])]
            /\ IF outcome = "recording"
               THEN /\ recorder' = [recorder EXCEPT ![p] = "recording"]
                    /\ mediaRecorder' = p
               ELSE UNCHANGED <<recorder, mediaRecorder>>
    /\ UNCHANGED <<ctlVars, chunkVars, toOff, webmHeader, ocfg, chunkIndex,
                   chunkStartSec, reads, emitted, nblock>>
    /\ Silent

\* the cluster marker 1F 43 B6 75
Marker == <<31, 67, 182, 117>>

\* findClusterOffset: the loop from index i (0-based) on
RECURSIVE FindFrom(_, _)
FindFrom(view, i) ==
    IF i >= Len(view) - 3 THEN -1
    ELSE IF /\ view[i + 1] = Marker[1] /\ view[i + 2] = Marker[2]
            /\ view[i + 3] = Marker[3] /\ view[i + 4] = Marker[4]
         THEN i
         ELSE FindFrom(view, i + 1)

findClusterOffset(buffer) == FindFrom(buffer, 0)

\* btoa on the binary string of the bytes: 6-bit digits, 64 is the pad '='
RECURSIVE Btoa(_)
Btoa(b) ==
    IF Len(b) = 0 THEN <<>>
    ELSE IF Len(b) = 1
         THEN << b[1] \div 4, (b[1] % 4) * 16, 64, 64 >>
    ELSE IF Len(b) = 2
         THEN << b[1] \div 4, (b[1] % 4) * 16 + b[2] \div 16, (b[2] % 16) * 4, 64 >>
    ELSE << b[1] \div 4, (b[1] % 4) * 16 + b[2] \div 16,
            (b[2] % 16) * 4 + b[3] \div 64, b[3] % 64 >>
         \o Btoa(SubSeq(b, 4, Len(b)))

arrayBufferToBase64(buffer) == Btoa(buffer)

\* atob and the charCodeAt loop of handleAudioChunk
RECURSIVE Atob(_)
Atob(c) ==
    IF Len(c) < 4 THEN <<>>
    ELSE (IF c[3] = 64
          THEN << c[1] * 4 + c[2] \div 16 >>
          ELSE IF c[4] = 64
          THEN << c[1] * 4 + c[2] \div 16, (c[2] % 16) * 16 + c[3] \div 4 >>
          ELSE << c[1] * 4 + c[2] \div 16, (c[2] % 16) * 16 + c[3] \div 4,
                  (c[3] % 4) * 64 + c[4] >>)
         \o Atob(SubSeq(c, 5, Len(c)))

\* the blocks a recorder hands to ondataavailable: empty, shorter than the
\* marker, with the marker at 2 (after a false start or not), with the
\* marker at 0
Blocks ==
    { <<>>,
      <<163, 129>>,
      <<26, 69, 31, 67, 182, 117, 1>>,
      <<31, 67, 31, 67, 182, 117>>,
      <<31, 67, 182, 117, 2>> }

\* mediaRecorder.ondataavailable up to its await of e.data.arrayBuffer()
DataAvailable(p, blk) ==
    /\ recorder[p] \in {"recording", "flushing"}
    /\ nblock < MaxBlocks
    /\ nblock' = nblock + 1
    /\ recorder' = [recorder EXCEPT ![p] = IF @ = "flushing" THEN "inactive" ELSE @]
    /\ IF Len(blk) < 1
       THEN UNCHANGED <<chunkStartSec, reads>>
       ELSE /\ chunkStartSec' = [chunkStartSec EXCEPT ![p] = @ + chunkSec[p]]
            /\ reads' = reads \cup
                  {[sess |-> p, n |-> nblock + 1, start |-> chunkStartSec[p],
                    end |-> chunkStartSec[p] + chunkSec[p], block |-> blk]}
    /\ UNCHANGED <<ctlVars, chunkVars, toOff, oproc, stream, captureStream,
                   mediaRecorder, webmHeader, ocfg, chunkSec, chunkIndex, emitted>>
    /\ Silent

\* what the handler sends for a block, by the index of its chunk
DataToSend(index, header, block) ==
    IF index # 0 /\ header # <<>> THEN header \o block ELSE block

\* the header the handler leaves cached
HeaderAfter(index, header, block) ==
    IF index = 0 /\ findClusterOffset(block) > 0
    THEN SubSeq(block, 1, findClusterOffset(block))
    ELSE header

\* the block's bytes arrive: the rest of ondataavailable
ReadDone(n) ==
    \E r \in reads :
    /\ r.n = n
    /\ reads' = reads \ {r}
    /\ webmHeader' = HeaderAfter(chunkIndex[r.sess], webmHeader, r.block)
    /\ emitted' = Append(emitted,
          [sess |-> r.sess, index |-> chunkIndex[r.sess], start |-> r.start,
           end |-> r.end, raw |-> r.block,
           chunk |-> arrayBufferToBase64(
                        DataToSend(chunkIndex[r.sess], webmHeader, r.block))])
    /\ chunkIndex' = [chunkIndex EXCEPT ![r.sess] = @ + 1]
    /\ UNCHANGED <<ctlVars, chunkVars, toOff, oproc, stream, recorder, captureStream,
                   mediaRecorder, ocfg, chunkSec, chunkStartSec, nblock>>
    /\ Silent

\* the controller as the capturer sees it: START_CAPTURE with a config
CtlSendsStart(size) ==
    /\ nstart < MaxStarts
    /\ Len(toOff) < MaxQueue
    /\ nstart' = nstart + 1
    /\ toOff' = Append(toOff, [type |-> "START_CAPTURE", p |-> nstart + 1,
                               chunkSize |-> size])
    /\ UNCHANGED <<socket, currentTabId, config, wsReconnectTimer, isRunning, sock,
                   nsock, proc, storageRunning, offscreenDoc, stopMark,
                   chunkVars, offVars>>
    /\ Silent

\* the controller as the capturer sees it: STOP_CAPTURE
CtlSendsStop ==
    /\ Len(toOff) < MaxQueue
    /\ toOff' = Append(toOff, [type |-> "STOP_CAPTURE", p |-> 0, chunkSize |-> 0])
    /\ UNCHANGED <<ctlVars, chunkVars, offVars>>
    /\ Silent

\* ------------------------------------------- inbound records, renderer

Max(a, b) == IF a > b THEN a ELSE b

\* String.prototype.trim on a sequence of characters
RECURSIVE TrimStart(_)
TrimStart(s) == IF s # <<>> /\ Head(s) = " " THEN TrimStart(Tail(s)) ELSE s
RECURSIVE TrimEnd(_)
TrimEnd(s) ==
    IF s # <<>> /\ s[Len(s)] = " " THEN TrimEnd(SubSeq(s, 1, Len(s) - 1)) ELSE s
Trim(s) == TrimEnd(TrimStart(s))

\* a text of n letters
Letters(n) == [i \in 1..n |-> "x"]

\* the text of a subtitle record: empty, blank, padded, of 10 and 60 letters
Texts == { <<>>, <<" ", " ", " ">>, <<" ", "h", "i", " ">>, Letters(10), Letters(60) }

\* event.data: not JSON, or a record with an event and maybe a text
Rec(valid, event, hasText, text) ==
    [valid |-> valid, event |-> event, hasText |-> hasText, text |-> text]
Records ==
    {Rec(FALSE, "", FALSE, <<>>)}
    \cup {Rec(TRUE, "subtitle", TRUE, x) : x \in Texts}
    \cup {Rec(TRUE, "subtitle", FALSE, <<>>),
          Rec(TRUE, "error", FALSE, <<>>),
          Rec(TRUE, "pong", FALSE, <<>>)}

\* msg.event === 'subtitle' && msg.text && msg.text.trim()
RelayableUntrimmed(m) ==
    m.valid /\ m.event = "subtitle" /\ m.hasText /\ m.text # <<>>
Relayable(m) ==
    m.valid /\ m.event = "subtitle" /\ m.hasText /\ m.text # <<>> /\ Trim(m.text) # <<>>

\* if (msg.event === 'error') notifyStatus('backend: ' + msg.message, 'error')
BackendStatusAll(m) == <<notifyStatus("backend", "error", 0)>>
BackendStatus(m) ==
    IF m.valid /\ m.event = "error"
    THEN <<notifyStatus("backend", "error", 0)>> ELSE <<>>

\* Math.max(2500, text.length * 55)
CaptionMsNoMin(text) == Len(text) * MsPerChar
CaptionMs(text) == Max(MinCaptionMs, Len(text) * MsPerChar)

\* showSubtitle(text) of the content script
showSubtitle(o, text) ==
    [o EXCEPT !.text = text, !.visible = TRUE, !.hideTimer = o.n + 1, !.n = o.n + 1,
              !.timers = {tm \in o.timers : tm.id # o.hideTimer}
                         \cup {[id |-> o.n + 1, ms |-> CaptionMs(text), text |-> text]}]

\* the content script's listener for a SUBTITLE message
OnSubtitle(o, text) ==
    IF Trim(text) # <<>> THEN showSubtitle(o, Trim(text)) ELSE o

\* ws.onmessage of socket s: handleServerMessage, and the bound tab's
\* content script taking the SUBTITLE it sends
ServerMessage(s, m) ==
    /\ sock[s].state = "OPEN"
    /\ nmsg < MaxInbound
    /\ nmsg' = nmsg + 1
    /\ lastRec' = m
    /\ IF Relayable(m)
       THEN /\ outbox' = << Msg("SUBTITLE", currentTabId, "", "", 0, m.text),
                            Msg("SUBTITLE_PREVIEW", 0, "", "", 0, m.text) >>
            /\ lastSubtitle' = m.text
            /\ overlay' = [overlay EXCEPT ![currentTabId] = OnSubtitle(@, m.text)]
       ELSE /\ outbox' = BackendStatus(m)
            /\ UNCHANGED <<lastSubtitle, overlay>>
    /\ UNCHANGED <<ctlVars, chunkVars, toOff, offVars, serverUp>>

\* a timer of the content script of tab t expires: remove hls-visible
HideTimerFire(t, id) ==
    /\ \E tm \in overlay[t].timers : tm.id = id
    /\ overlay' = [overlay EXCEPT ![t].timers = {tm \in @ : tm.id # id},
                                  ![t].visible = FALSE]
    /\ outbox' = <<>>
    /\ UNCHANGED <<ctlVars, chunkVars, toOff, offVars, lastSubtitle, lastRec, nmsg, serverUp>>

\* the fontSize and overlayPos of an UPDATE_DISPLAY: absent (0, ""), or set
FontSizes == {0, 24}
Positions == {"", "top", "bottom"}

\* applySettings({fontSize, overlayPos}): pos is the hls-pos-* class of root
applySettings(o, fontSize, overlayPos) ==
    [o EXCEPT !.fontSize = IF fontSize # 0 THEN fontSize ELSE @,
              !.pos = IF overlayPos = "" THEN @
                      ELSE IF overlayPos \in {"top", "center"} THEN overlayPos
                      ELSE ""]

\* executeScript of a call of startCapture has put the content script
\* into tab t
Injected(t) ==
    \E p \in StartIds :
        proc[p].bound = t /\ proc[p].pc \notin {"none", "tabsQuery", "inject"}

\* the content script of tab t gets an UPDATE_DISPLAY
UpdateDisplay(t, fontSize, overlayPos) ==
    /\ Injected(t)
    /\ overlay' = [overlay EXCEPT ![t] = applySettings(@, fontSize, overlayPos)]
    /\ outbox' = <<>>
    /\ UNCHANGED <<ctlVars, chunkVars, toOff, offVars, lastSubtitle, lastRec, nmsg, serverUp>>

\* ------------------------------------------------------------- Spec
Outcomes == {"rejected", "recorderThrows", "recording"}

\* the popup, the tabs, the sockets and the reconnect timers
Channel(sockets) ==
    \/ StopRequest
    \/ \E t \in Tabs : TabRemoved(t)
    \/ \E t \in Tabs : TabLoading(t)
    \/ \E p \in StartIds, t \in Tabs \cup {0} : TabsQueryDone(p, t)
    \/ \E p \in StartIds : InjectDone(p, sockets)
    \/ \E s \in SockIds : WsOpen(s)
    \/ \E s \in SockIds : WsClose(s)
    \/ \E s \in SockIds : ConnectTimeout(s)
    \/ \E s \in SockIds : TimerFire(s, sockets)
    \/ OffRecv

\* the rest of startCapture and the capturer's answer
Setup ==
    \/ \E p \in StartIds, ok \in BOOLEAN : StreamIdDone(p, ok)
    \/ \E p \in StartIds : GetContextsDone(p)
    \/ \E p \in StartIds : CreateDocumentDone(p)
    \/ \E p \in StartIds : SleepDone(p)
    \/ \E p \in StartIds : StartAck(p)
    \/ \E p \in StartIds : StartUnanswered(p)
    \/ \E p \in StartIds, o \in Outcomes : GetUserMediaDone(p, o)

\* the popup asks for a start once only
StartOnce == nstart = 0 /\ StartRequest(MaxStarts)

\* controller and capturer, up to MaxStarts start requests
Next == StartRequest(MaxStarts) \/ Channel(LifeSockets) \/ Setup
Spec == Init /\ [][Next]_vars

\* the controller's channel to the backend, up to MaxStarts start requests
\* whose getMediaStreamId is not answered
NextChannel == StartRequest(MaxStarts) \/ Channel(MaxSockets)
SpecChannel == Init /\ [][NextChannel]_vars

\* one start request, and a chain of up to MaxChain sockets
NextBackoff == StartOnce \/ Channel(MaxChain)
SpecBackoff == Init /\ [][NextBackoff]_vars

\* one start request, its session and the audio chunks of its recorder
NextSession ==
    \/ StartOnce
    \/ Channel(MaxSockets)
    \/ Setup
    \/ \E p \in StartIds : OnAudioChunk(p)
    \/ \E p \in StartIds : OnCaptureError(p)
SpecSession == Init /\ [][NextSession]_vars

\* one start and its reconnect chain, with an endpoint that refuses
\* connections until it accepts them; timers expire and socket events are
\* delivered
NextLive ==
    \/ StartOnce
    \/ StopRequest
    \/ \E p \in StartIds, t \in Tabs \cup {0} : TabsQueryDone(p, t)
    \/ \E p \in StartIds : InjectDone(p, MaxChain)
    \/ \E s \in SockIds : WsOpen(s)
    \/ \E s \in SockIds : WsClose(s)
    \/ \E s \in SockIds : ConnectTimeout(s)
    \/ \E s \in SockIds : TimerFire(s, MaxChain)
    \/ OffRecv
    \/ ServerAccepts
SpecLive ==
    /\ Init /\ [][NextLive]_vars
    /\ \A s \in SockIds : WF_vars(TimerFire(s, MaxChain))
    /\ \A s \in SockIds : WF_vars(WsOpen(s))

\* one start, the channel, the server's records and the renderer
NextInbound ==
    \/ StartOnce
    \/ Channel(LifeSockets)
    \/ \E s \in SockIds, m \in Records : ServerMessage(s, m)
    \/ \E t \in Tabs, id \in 1..MaxInbound : HideTimerFire(t, id)
SpecInbound == Init /\ [][NextInbound]_vars

\* one session that opens its channel, the captions of its tab, display
\* updates, the stop
NextRender ==
    \/ StartOnce
    \/ StopRequest
    \/ \E p \in StartIds, t \in Tabs : TabsQueryDone(p, t)
    \/ \E p \in StartIds : InjectDone(p, LifeSockets)
    \/ \E s \in SockIds : WsOpen(s)
    \/ OffRecv
    \/ \E s \in SockIds, m \in Records : ServerMessage(s, m)
    \/ \E t \in Tabs, id \in 1..MaxInbound : HideTimerFire(t, id)
    \/ \E t \in Tabs, f \in FontSizes, pos \in Positions : UpdateDisplay(t, f, pos)
SpecRender == Init /\ [][NextRender]_vars

\* sessions one after the other on a channel that stays open: the starts,
\* the stop, the capturer's answer and the audio chunks of the recorders
NextCross ==
    \/ StartRequest(MaxStarts)
    \/ StopRequest
    \/ \E p \in StartIds, t \in Tabs : TabsQueryDone(p, t)
    \/ \E p \in StartIds : InjectDone(p, LifeSockets)
    \/ \E s \in SockIds : WsOpen(s)
    \/ \E p \in StartIds : StreamIdDone(p, TRUE)
    \/ \E p \in StartIds : GetContextsDone(p)
    \/ \E p \in StartIds : CreateDocumentDone(p)
    \/ \E p \in StartIds : SleepDone(p)
    \/ \E p \in StartIds : StartAck(p)
    \/ OffRecv
    \/ \E p \in StartIds : GetUserMediaDone(p, "recording")
    \/ \E p \in StartIds : OnAudioChunk(p)
SpecCross == Init /\ [][NextCross]_vars

\* the capturer alone, under any sequence of START_CAPTURE and STOP_CAPTURE
ChunkSizes == {0, 2}
NextSeg ==
    \/ \E size \in ChunkSizes : CtlSendsStart(size)
    \/ CtlSendsStop
    \/ OffRecv
    \/ \E p \in StartIds, o \in Outcomes : GetUserMediaDone(p, o)
    \/ \E p \in StartIds, blk \in Blocks : DataAvailable(p, blk)
    \/ \E n \in 1..MaxBlocks : ReadDone(n)
SpecSeg == Init /\ [][NextSeg]_vars

\* ----------------------------------------------------------- claims

\* a socket opened by a reconnect timer's callback appears in this step
ReconnectStep == nsock' = nsock + 1 /\ sock'[nsock'].owner = 0

\* C1: once stopCapture has run with a reconnect timer pending, no
\* reconnect timer's callback opens a socket until a start is requested
C1_NoReconnectAfterStop == [][stopMark => ~ReconnectStep]_vars

\* C1 witness: after such a stop a timer that clearTimeout did not reach
\* has fired and has opened nothing
C1_Witness ==
    /\ stopMark
    /\ ~isRunning
    /\ \E s \in SockIds :
          /\ sock[s].timer = "fired"
          /\ s # wsReconnectTimer
          /\ \A r \in SockIds : sock[r].from # s

\* the start of call p failed because its channel did not open
OpenFailed(p) ==
    /\ proc[p].pc = "failed"
    /\ proc[p].ws # 0
    /\ sock[proc[p].ws].promise \in {"failed", "timeout"}

\* C2 (as claimed): after a start whose channel failed to open, and no
\* start since, the controller is idle: not running, no socket held, no
\* reconnect timer pending, no capability held
C2_FailedStartIdle ==
    \A p \in StartIds :
        (OpenFailed(p) /\ nstart = p) =>
            /\ ~isRunning
            /\ socket = 0
            /\ \A s \in SockIds : sock[s].timer # "pending"
            /\ captureStream = 0

\* START_CAPTURE of call p has been sent to the capturer
StartSent(p) ==
    \/ proc[p].pc \in {"ack", "done"}
    \/ oproc[p] # "none"
    \/ \E i \in 1..Len(toOff) : toOff[i].type = "START_CAPTURE" /\ toOff[i].p = p

\* C3 (as claimed): a call of startCapture that a stop found suspended at
\* an await neither sends START_CAPTURE afterwards nor reaches 'live' and
\* running = true
C3_StopCancelsStart ==
    \A p \in StartIds :
        /\ proc[p].stoppedAt = "beforeSend" => ~StartSent(p)
        /\ proc[p].stoppedAt # "none" => proc[p].pc # "done"

\* C4 (as claimed): the capturer never holds two live streams or two
\* recording recorders
C4_SingleSession ==
    /\ Cardinality({p \in StartIds : stream[p] = "live"}) <= 1
    /\ Cardinality({p \in StartIds : recorder[p] = "recording"}) <= 1

\* the AUDIO_CHUNK messages of session p, in the order sent
EmittedBy(p) == SelectSeq(emitted, LAMBDA m : m.sess = p)

\* C5 (as claimed): the chunks of a session carry the indices 0, 1, 2, ...
\* and each ends where the next one starts
C5_GapFree ==
    \A p \in StartIds :
        LET e == EmittedBy(p)
        IN \A i \in 1..Len(e) :
              /\ e[i].index = i - 1
              /\ i < Len(e) => e[i].end = e[i + 1].start

\* C6 (as claimed): when the block of chunk 0 has the marker at k > 0,
\* chunk 0 is that block and every later chunk of the session is bytes
\* [0, k) of it followed by the chunk's own block
C6_HeaderSplicing ==
    \A p \in StartIds :
        LET e == EmittedBy(p)
        IN (Len(e) >= 1 /\ findClusterOffset(e[1].raw) > 0) =>
              /\ Atob(e[1].chunk) = e[1].raw
              /\ \A i \in 2..Len(e) :
                    Atob(e[i].chunk) =
                        SubSeq(e[1].raw, 1, findClusterOffset(e[1].raw)) \o e[i].raw

\* C7 (as claimed): when the block of chunk 0 has no marker, every later
\* chunk of the session is its own block, byte for byte
C7_Passthrough ==
    \A p \in StartIds :
        LET e == EmittedBy(p)
        IN (Len(e) >= 1 /\ findClusterOffset(e[1].raw) = -1) =>
              \A i \in 2..Len(e) : Atob(e[i].chunk) = e[i].raw

\* the schedule the spec lists for attempts 0, 1, 2, 3, 4, ...
ScheduleMs(a) ==
    CASE a = 0 -> 2000 [] a = 1 -> 4000 [] a = 2 -> 8000 [] OTHER -> 12000

\* C8: every reconnect scheduled at the close of a socket with attempt
\* number a waits 2000, 4000, 8000, 12000, 12000, ... ms, never more than
\* 12000, and the socket a reconnect opens has attempt number a + 1
C8_BackoffSchedule ==
    \A s \in SockIds :
        /\ sock[s].timer # "none" =>
              /\ sock[s].delay = ScheduleMs(sock[s].attempt)
              /\ sock[s].delay <= 12000
        /\ sock[s].from # 0 => sock[s].attempt = sock[sock[s].from].attempt + 1
        /\ (sock[s].state # "NONE" /\ sock[s].from = 0) => sock[s].attempt = 0

\* C8 witness: the close of the socket of attempt 4 scheduled a reconnect
C8_Witness ==
    \E s \in SockIds :
        sock[s].attempt = 4 /\ sock[s].timer # "none" /\ sock[s].delay = 12000

\* C9 (as claimed): a reconnect scheduled at the close of a socket that
\* had reached Open waits 2000 ms
C9_AttemptReset ==
    \A s \in SockIds :
        (sock[s].promise = "resolved" /\ sock[s].timer # "none") =>
            sock[s].delay = 2000

\* C10: frames are written only to the controller's socket and only while
\* it is Open; a chunk that arrives otherwise writes nothing and is on no
\* socket afterwards
C10_NoSendUnlessOpen ==
    [][/\ wire' # wire =>
             /\ socket # 0
             /\ sock[socket].state = "OPEN"
             /\ \A i \in (Len(wire) + 1)..Len(wire') : wire'[i].sock = socket
       /\ (nchunk' # nchunk /\ (socket = 0 \/ sock[socket].state # "OPEN")) =>
             (wire' = wire /\ nchunk' \in dropped')
       /\ \A i \in 1..Len(wire') : wire'[i].chunk \notin dropped']_vars

\* C10 witness: a chunk was dropped while the channel reconnected, and a
\* later chunk went out on the socket that the reconnect opened
C10_Witness ==
    \E i \in 1..Len(wire) :
        /\ sock[wire[i].sock].from # 0
        /\ \E c \in dropped : c < wire[i].chunk

\* C11: the frames written are pairs: a text frame with a chunk's metadata
\* and next to it one binary frame of the same chunk on the same socket,
\* and no chunk is written twice
C11_WireFraming ==
    /\ Len(wire) % 2 = 0
    /\ \A i \in 1..Len(wire) :
          IF i % 2 = 1
          THEN /\ wire[i].kind = "text"
               /\ i + 1 <= Len(wire)
               /\ wire[i + 1].kind = "binary"
               /\ wire[i + 1].chunk = wire[i].chunk
               /\ wire[i + 1].sock = wire[i].sock
          ELSE wire[i].kind = "binary"
    /\ \A i, j \in 1..Len(wire) :
          (wire[i].kind = wire[j].kind /\ wire[i].chunk = wire[j].chunk) => i = j

\* C11 witness: two chunks are on the wire, four frames
C11_Witness ==
    /\ Len(wire) = 4
    /\ wire[1].chunk # wire[3].chunk

\* what one stopCapture of the controller leaves
PostStop ==
    /\ ~isRunning /\ socket = 0 /\ ~storageRunning
    /\ wsReconnectTimer # 0 => sock[wsReconnectTimer].timer # "pending"

\* what one stopCapture of the capturer leaves
PostOffStop == mediaRecorder = 0 /\ captureStream = 0 /\ webmHeader = <<>>

\* the capturer takes a STOP_CAPTURE
OffStopStep == toOff # <<>> /\ Head(toOff).type = "STOP_CAPTURE" /\ OffRecv

BlankSubtitle(m) ==
    m.valid /\ m.event = "subtitle" /\ (~m.hasText \/ Trim(m.text) = <<>>)

\* C13: the task that gets a subtitle record without text sends no
\* SUBTITLE and no SUBTITLE_PREVIEW, leaves lastSubtitle and every
\* renderer's caption, visibility and timers as they were; no renderer
\* ever shows a blank caption
C13_BlankDropped ==
    [][/\ (nmsg' # nmsg /\ BlankSubtitle(lastRec')) =>
             (outbox' = <<>> /\ UNCHANGED <<lastSubtitle, overlay>>)
       /\ \A t \in Tabs : overlay'[t].visible => Trim(overlay'[t].text) # <<>>]_vars

\* C13 witness: a blank record came after a caption and left it displayed
C13_Witness ==
    /\ nmsg = 2 /\ BlankSubtitle(lastRec) /\ lastRec.hasText /\ lastRec.text # <<>>
    /\ outbox = <<>>
    /\ currentTabId # 0
    /\ overlay[currentTabId].visible
    /\ overlay[currentTabId].text = lastSubtitle

\* C14: a renderer has at most one timer pending, the one of the caption
\* it shows, set to max(2500, 55 L) ms for the caption's length L (2500
\* for 10, 3300 for 60); a caption shown has its timer pending
C14_CaptionTimer ==
    \A t \in Tabs :
        LET o == overlay[t]
        IN /\ Cardinality(o.timers) <= 1
           /\ o.visible => o.timers # {}
           /\ \A tm \in o.timers :
                 /\ tm.id = o.hideTimer
                 /\ o.visible /\ o.text = tm.text
                 /\ tm.ms = IF 55 * Len(o.text) > 2500 THEN 55 * Len(o.text) ELSE 2500
                 /\ Len(o.text) = 10 => tm.ms = 2500
                 /\ Len(o.text) = 60 => tm.ms = 3300

\* C14 witness: a caption of 60 letters replaced one of 10, and only its
\* timer is pending
C14_Witness ==
    \E t \in Tabs :
        /\ overlay[t].n = 2 /\ overlay[t].visible
        /\ Len(overlay[t].text) = 60
        /\ overlay[t].timers = {[id |-> 2, ms |-> 3300, text |-> overlay[t].text]}

\* C18: the task that gets an 'error' record sends one status of state
\* 'error', the task that gets no JSON or another record sends nothing;
\* both leave the sockets, the running state, the reconnect timer, the
\* bound tab, lastSubtitle and the renderers as they were
C18_InboundErrors ==
    [][(nmsg' # nmsg /\ ~(lastRec'.valid /\ lastRec'.event = "subtitle")) =>
          /\ IF lastRec'.valid /\ lastRec'.event = "error"
             THEN /\ Len(outbox') = 1
                  /\ outbox'[1].type = "STATUS_UPDATE"
                  /\ outbox'[1].state = "error"
             ELSE outbox' = <<>>
          /\ UNCHANGED <<ctlVars, chunkVars, toOff, lastSubtitle, overlay>>]_vars

\* C18 witness: an 'error' record was taken on an open socket of a running
\* session
C18_Witness ==
    /\ lastRec.valid /\ lastRec.event = "error"
    /\ outbox = <<notifyStatus("backend", "error", 0)>>
    /\ isRunning /\ socket # 0 /\ sock[socket].state = "OPEN"

\* the 'live' status is among the messages of a task
SaysLive(box) ==
    \E i \in 1..Len(box) : box[i].type = "STATUS_UPDATE" /\ box[i].text = "live"

\* C15: 'live' is sent and running = true is stored only by the task that
\* gets the capturer's answer with success; a start whose START_CAPTURE
\* got no answer or an answer without success fails and stays failed
C15_LiveNeedsAck ==
    [][/\ (SaysLive(outbox') \/ (storageRunning' /\ ~storageRunning)) =>
             \E p \in StartIds :
                /\ proc[p].pc = "ack" /\ oproc[p] = "respOk"
                /\ proc'[p].pc = "done"
                /\ SaysLive(outbox') /\ storageRunning'
       /\ \A p \in StartIds :
             /\ (proc[p].pc = "ack" /\ proc'[p].pc # "ack" /\ oproc[p] # "respOk") =>
                   (proc'[p].pc = "failed" /\ ~SaysLive(outbox')
                    /\ storageRunning' = storageRunning)
             /\ proc[p].pc = "failed" => proc'[p].pc = "failed"]_vars

\* C15 witness: the answer with success has just made a start live
C15_Witness ==
    \E p \in StartIds :
        /\ proc[p].pc = "done" /\ oproc[p] = "answered"
        /\ SaysLive(outbox) /\ storageRunning

\* C16 (as claimed): the close event of a socket that stopCapture closed
\* schedules no reconnect
C16_DeliberateCloseSilent ==
    \A s \in SockIds : sock[s].byStop => sock[s].timer = "none"

\* C17: every close of a socket while the session runs schedules a
\* reconnect, of a reconnect's socket too; and once the endpoint accepts
\* connections a scheduled reconnect leads to an open channel, unless the
\* session stops
C17_Reconnects ==
    /\ [][\A s \in SockIds :
             (isRunning /\ sock[s].state # "CLOSED" /\ sock'[s].state = "CLOSED") =>
                 sock'[s].timer = "pending"]_vars
    /\ \A s \in SockIds :
          (serverUp /\ isRunning /\ sock[s].timer = "pending" /\ nsock < MaxChain)
              ~> (~isRunning \/ \E r \in SockIds : sock[r].state = "OPEN")

\* C17 witness: after two failed attempts the endpoint accepted and the
\* third reconnect's socket is open
C17_Witness ==
    /\ serverUp /\ isRunning /\ socket # 0
    /\ sock[socket].state = "OPEN"
    /\ sock[socket].attempt >= 2

\* the step runs stopCapture: a stop, or the restart of a start request
StopCalled == Stop \/ (isRunning /\ nstart' = nstart + 1)

\* C19 (as claimed): when stopCapture has run, running = false is stored,
\* no reconnect timer is pending, STOP_CAPTURE has been sent, the socket
\* is closing or closed and forgotten, CLEAR_SUBTITLES went to the bound
\* tab; a stop leaves isRunning false
C19_StopPostCondition ==
    [][StopCalled =>
          /\ ~storageRunning'
          /\ \A s \in SockIds : sock'[s].timer # "pending"
          /\ toOff' = Append(toOff, [type |-> "STOP_CAPTURE", p |-> 0, chunkSize |-> 0])
          /\ socket' = 0
          /\ socket # 0 => sock'[socket].state \in {"CLOSING", "CLOSED"}
          /\ currentTabId # 0 =>
                outbox' = <<Msg("CLEAR_SUBTITLES", currentTabId, "", "", 0, <<>>)>>
          /\ Stop => ~isRunning']_vars

\* a STATUS_UPDATE is among the messages of a task
HasStatus(box) == \E i \in 1..Len(box) : box[i].type = "STATUS_UPDATE"

\* C20 (as claimed): the task that ends a running session, opens the
\* channel, enters Live or schedules a reconnect sends a STATUS_UPDATE
C20_StatusOnTransition ==
    [][((isRunning /\ ~isRunning')
        \/ (storageRunning' /\ ~storageRunning)
        \/ (\E s \in SockIds :
               \/ sock[s].state # "OPEN" /\ sock'[s].state = "OPEN"
               \/ sock[s].timer = "none" /\ sock'[s].timer = "pending"))
       => HasStatus(outbox')]_vars

\* the tab the running session is bound to: the one the latest call of
\* startCapture got from tabs.query, none while it awaits the answer
SessionTab == IF isRunning /\ nstart # 0 THEN proc[nstart].bound ELSE 0

\* tabs.onRemoved or tabs.onUpdated with status 'loading' for tab t
TabEvent(t) == TabRemoved(t) \/ TabLoading(t)

\* what the tab events may not touch
Controller == <<isRunning, socket, wsReconnectTimer, currentTabId, sock>>

\* C21 (as claimed): while a session runs, the tab whose events stop it is
\* the session's tab; an event for that tab stops the session, and an
\* event for any other tab leaves the running flag, the socket, the
\* reconnect timer and the bound tab as they were, also while the start
\* of the session has not got its tab yet
C21_TabTriggers ==
    /\ [](SessionTab # 0 => currentTabId = SessionTab)
    /\ [][\A t \in Tabs :
             /\ (isRunning /\ t = SessionTab /\ TabEvent(t)) =>
                   (~isRunning' /\ socket' = 0 /\ ~storageRunning')
             /\ (isRunning /\ t # SessionTab /\ TabEvent(t)) =>
                   UNCHANGED Controller]_vars

\* C22 (as claimed): the chunk of index n of a session starts at n and
\* ends at n + 1 chunk durations, and the chunks of a session are sent
\* with increasing indices, in whatever order the block reads complete
C22_OffsetsFromIndex ==
    /\ \A i \in 1..Len(emitted) :
          /\ emitted[i].start = emitted[i].index * chunkSec[emitted[i].sess]
          /\ emitted[i].end = (emitted[i].index + 1) * chunkSec[emitted[i].sess]
    /\ \A i, j \in 1..Len(emitted) :
          (i < j /\ emitted[i].sess = emitted[j].sess) =>
              emitted[i].index < emitted[j].index

\* the sockets that are Connecting or Open
Alive == {s \in SockIds : sock[s].state \in {"CONNECTING", "OPEN"}}

\* C23 (as claimed): at most one socket is Connecting or Open, and it is
\* the one the controller's socket names
C23_SingleSocket ==
    /\ Cardinality(Alive) <= 1
    /\ \A s \in Alive : s = socket

\* the capturer has taken every message sent to it and the capturer's
\* startCapture of call p has run to its end
OffSettled(p) == toOff = <<>> /\ oproc[p] \notin {"none", "getUserMedia"}

\* C24 (as claimed): once a STOP_CAPTURE sent after the START_CAPTURE of a
\* call has been handled and that call's startCapture has settled, its
\* stream is not live and its recorder does not record; and a
\* startCapture that failed holds no live stream
C24_Released ==
    \A p \in StartIds :
        /\ (proc[p].stoppedAt = "ack" /\ OffSettled(p)) =>
              (stream[p] # "live" /\ recorder[p] # "recording")
        /\ oproc[p] = "respFail" => stream[p] # "live"

\* a CLEAR_SUBTITLES for tab t is among the messages of a task
ClearsTab(box, t) ==
    \E i \in 1..Len(box) : box[i].type = "CLEAR_SUBTITLES" /\ box[i].to = t

\* C25: the renderer that gets CLEAR_SUBTITLES has no timer pending, shows
\* nothing and has an empty caption; a timer that fires is the one of the
\* caption shown, so none fires after a clear; UPDATE_DISPLAY sets the
\* font size and the position it carries and leaves the caption, its
\* visibility, hideTimer and the pending timers as they were
C25_RendererControl ==
    [][/\ \A t \in Tabs :
             ClearsTab(outbox', t) =>
                 /\ overlay'[t].timers = {}
                 /\ ~overlay'[t].visible
                 /\ overlay'[t].text = <<>>
       /\ \A t \in Tabs, id \in 1..MaxInbound :
             HideTimerFire(t, id) =>
                 /\ overlay[t].visible /\ overlay[t].text # <<>>
                 /\ id = overlay[t].hideTimer
       /\ \A t \in Tabs, f \in FontSizes, pos \in Positions :
             UpdateDisplay(t, f, pos) =>
                 /\ overlay'[t].text = overlay[t].text
                 /\ overlay'[t].visible = overlay[t].visible
                 /\ overlay'[t].hideTimer = overlay[t].hideTimer
                 /\ overlay'[t].timers = overlay[t].timers
                 /\ f # 0 => overlay'[t].fontSize = f
                 /\ f = 0 => overlay'[t].fontSize = overlay[t].fontSize
                 /\ pos = "" => overlay'[t].pos = overlay[t].pos
                 /\ \A u \in Tabs \ {t} : overlay'[u] = overlay[u]]_vars

\* C25 witness: a caption was shown, the display was updated while its
\* timer was pending, and the stop's CLEAR_SUBTITLES has cleared the tab
C25_Witness ==
    \E t \in Tabs :
        /\ ClearsTab(outbox, t)
        /\ overlay[t].n = 1 /\ overlay[t].hideTimer = 1
        /\ overlay[t].fontSize = 24 /\ overlay[t].pos = "top"
        /\ overlay[t].timers = {} /\ ~overlay[t].visible /\ overlay[t].text = <<>>

\* C26 (as claimed): running = true is stored only while the controller's
\* isRunning is true
C26_DurableFlag == storageRunning => isRunning

\* the call of startCapture whose openWebSocket began the chain of
\* reconnects that socket s belongs to
RECURSIVE SockOwner(_)
SockOwner(s) == IF sock[s].from = 0 THEN sock[s].owner ELSE SockOwner(sock[s].from)

\* the first chunk a session sent
FirstOf(p) == EmittedBy(p)[1]

\* C27 (as claimed): no chunk of a session's recorder is written to the
\* socket of a later session, and a chunk of index > 0 is its own block,
\* alone or behind the header its own session cached, never behind the
\* header of another session
C27_NoCrossSession ==
    /\ \A i \in 1..Len(wire) : SockOwner(wire[i].sock) <= wire[i].sess
    /\ \A i \in 1..Len(emitted) :
          emitted[i].index > 0 =>
              \/ Atob(emitted[i].chunk) = emitted[i].raw
              \/ Atob(emitted[i].chunk) =
                    SubSeq(FirstOf(emitted[i].sess).raw, 1,
                           findClusterOffset(FirstOf(emitted[i].sess).raw))
                    \o emitted[i].raw

====
